---- MODULE Spec2Model ----
(***************************************************************************)
(* Model of the Condorcet / Ranked Pairs pipeline of democracy-bot:        *)
(*   visualize_condorcet.py  compute_user_rankings, compute_condorcet_     *)
(*                           matrix, compute_ranked_pairs                  *)
(*   visualize_vote.py       compute_user_rankings, compute_vote_matrix    *)
(* Python lists are sequences, dicts are functions, sets are sets.  The    *)
(* order in which Python iterates a set is not fixed by the language: it   *)
(* is an explicit sequence (movies_to_rank, or an argument named order)    *)
(* that the actions draw from all permutations.  Candidate positions are   *)
(* 0-based as in the source.                                               *)
(***************************************************************************)
EXTENDS Integers, Sequences, FiniteSets, TLC

VARIABLES
    pc,                  \* position in the pipeline
    movie_ids,           \* candidate ids, position -> id (ORDER BY id)
    attendees,           \* the user ids of lines 178-188, one per row
    all_prefs,           \* per user id, the rows of get_user_preferences
    u,                   \* the position in attendees the loop of line 193 is at
    movies_to_rank,      \* compute_user_rankings locals, lines 70-164
    graph,
    in_degree,
    comparison_graph,
    components,
    main_component,
    unranked_ids,
    rank_map,
    remaining,
    component_in_degree,
    current_rank,
    user_rankings,       \* dict of line 192, in insertion order
    matrix,
    movie_titles,        \* compute_ranked_pairs arguments and locals
    pairs,
    next_pair,
    locked,
    final_in_degree,
    ranking,
    final_remaining,
    fallback_taken,      \* the branch of lines 277-281 was executed
    vote_rankings,       \* visualize_vote.py results on the same input
    vote_matrix

vars == <<pc, movie_ids, attendees, all_prefs, u, movies_to_rank, graph, in_degree,
          comparison_graph, components, main_component, unranked_ids, rank_map,
          remaining, component_in_degree, current_rank, user_rankings, matrix,
          movie_titles, pairs, next_pair, locked, final_in_degree, ranking,
          final_remaining, fallback_taken, vote_rankings, vote_matrix>>

voter_vars == <<movies_to_rank, graph, in_degree, comparison_graph, components,
                main_component, unranked_ids, rank_map, remaining,
                component_in_degree, current_rank>>

rp_vars == <<movie_titles, pairs, next_pair, locked, final_in_degree, ranking,
             final_remaining, fallback_taken>>

vote_vars == <<vote_rankings, vote_matrix>>

-----------------------------------------------------------------------------
(* Bounds of the explored inputs.                                          *)

\* candidate / option ids are 1..NumIds
NumIds == 4
\* statement lists over all ids have at most MaxPrefsWide statements
MaxPrefsWide == 2
\* statement lists over the ids 1..NumIds-1 have at most MaxPrefs statements
MaxPrefs == 3
\* at most this many ids of the statements are outside the target set
MaxNonTarget == 1
\* user ids of the full pipeline are 1..NumVoters
NumVoters == 2
\* rows of the attendance query in the full pipeline
NumRows == 2
\* statements of all attendees together in the full pipeline
MaxTotalPrefs == 2
\* distinct display labels
NumLabels == 2
\* candidates and largest entry of the matrices given to compute_ranked_pairs
NumCands == 3
MaxVotes == 2

Ids == 1..NumIds

\* rows (movie_a_id, movie_b_id, preference); the explored rows name the
\* smaller id first, the preference sign gives both directions
Statements(ids) == {s \in ids \X ids \X {-1, 0, 1} : s[1] < s[2]}

ListsUpTo(S, n) == UNION {[1..k -> S] : k \in 0..n}

PrefLists == ListsUpTo(Statements(Ids), MaxPrefsWide) \cup
             ListsUpTo(Statements(1..(NumIds - 1)), MaxPrefs)

TargetSets == {S \in SUBSET Ids : Cardinality(Ids \ S) <= MaxNonTarget}

-----------------------------------------------------------------------------
(* Python built-ins.                                                       *)

\* all orders in which the elements of a set can be iterated
SetOrders(S) ==
    {f \in [1..Cardinality(S) -> S] : \A i, j \in DOMAIN f : i # j => f[i] # f[j]}

\* the elements of S in the order in which the sequence order lists them
IterOrder(S, order) == SelectSeq(order, LAMBDA x : x \in S)

Range(f) == {f[x] : x \in DOMAIN f}

\* lexicographic order of the two-component keys of list.sort
KeyLess(x, y) == x[1] < y[1] \/ (x[1] = y[1] /\ x[2] < y[2])

\* list.sort(key=...): ascending by key, equal keys keep their order (stable)
StableSort(items, keys) ==
    LET n == Len(items)
        pos(i) == 1 + Cardinality({j \in 1..n : KeyLess(keys[j], keys[i])
                                               \/ (keys[j] = keys[i] /\ j < i)})
    IN  [r \in 1..n |-> items[CHOOSE i \in 1..n : pos(i) = r]]

\* ORDER BY id: the ids of S ascending, at positions 0..n-1
SortedIds(S) ==
    [i \in 0..(Cardinality(S) - 1) |->
        CHOOSE x \in S : Cardinality({y \in S : y < x}) = i]

\* d[key] = value on a dict
Put(d, key, value) ==
    [x \in DOMAIN d \cup {key} |-> IF x = key THEN value ELSE d[x]]

EmptyDict == [x \in {} |-> 0]

-----------------------------------------------------------------------------
(* visualize_condorcet.py: compute_user_rankings                           *)

\* lines 63-67
compared_movie_ids(prefs) ==
    UNION {{prefs[i][1], prefs[i][2]} : i \in DOMAIN prefs}

\* line 70: the set whose iteration yields movies_to_rank
ToRankSetBothTargets(prefs, unwatched_movie_ids) ==
    UNION {{prefs[i][1], prefs[i][2]} : i \in {k \in DOMAIN prefs :
              prefs[k][1] \in unwatched_movie_ids /\ prefs[k][2] \in unwatched_movie_ids}}

ToRankSet(prefs, unwatched_movie_ids) ==
    compared_movie_ids(prefs) \cap unwatched_movie_ids

\* defaultdict(set) read through .get(node, [])
EmptyGraph == [x \in Ids |-> {}]

\* lines 86-99, one iteration; g = [graph, in_degree]
AddPreferenceNoDedup(g, stmt, movie_ids_set) ==
    LET movie_a == stmt[1]
        movie_b == stmt[2]
        pref == stmt[3]
    IN  IF movie_a \notin movie_ids_set \/ movie_b \notin movie_ids_set THEN g
        ELSE IF pref > 0 THEN
            [graph |-> [g.graph EXCEPT ![movie_a] = @ \cup {movie_b}],
             in_degree |-> [g.in_degree EXCEPT ![movie_b] = @ + 1]]
        ELSE IF pref < 0 THEN
            [graph |-> [g.graph EXCEPT ![movie_b] = @ \cup {movie_a}],
             in_degree |-> [g.in_degree EXCEPT ![movie_a] = @ + 1]]
        ELSE g

AddPreference(g, stmt, movie_ids_set) ==
    LET movie_a == stmt[1]
        movie_b == stmt[2]
        pref == stmt[3]
    IN  IF movie_a \notin movie_ids_set \/ movie_b \notin movie_ids_set THEN g
        ELSE IF pref > 0 THEN
            IF movie_b \notin g.graph[movie_a] THEN
                [graph |-> [g.graph EXCEPT ![movie_a] = @ \cup {movie_b}],
                 in_degree |-> [g.in_degree EXCEPT ![movie_b] = @ + 1]]
            ELSE g
        ELSE IF pref < 0 THEN
            IF movie_a \notin g.graph[movie_b] THEN
                [graph |-> [g.graph EXCEPT ![movie_b] = @ \cup {movie_a}],
                 in_degree |-> [g.in_degree EXCEPT ![movie_a] = @ + 1]]
            ELSE g
        ELSE g

\* lines 82-99 after the first k statements
RECURSIVE BuildGraph(_, _, _)
BuildGraph(prefs, movie_ids_set, k) ==
    IF k = 0 THEN [graph |-> EmptyGraph, in_degree |-> [m \in movie_ids_set |-> 0]]
    ELSE AddPreference(BuildGraph(prefs, movie_ids_set, k - 1), prefs[k], movie_ids_set)

\* lines 101-106
BuildComparisonGraph(prefs, movie_ids_set) ==
    [x \in Ids |->
        {y \in Ids : \E i \in DOMAIN prefs :
            /\ prefs[i][1] \in movie_ids_set
            /\ prefs[i][2] \in movie_ids_set
            /\ \/ prefs[i][1] = x /\ prefs[i][2] = y
               \/ prefs[i][2] = x /\ prefs[i][1] = y}]

\* every way the adjacency sets of a graph can be iterated: for each
\* candidate 1..k an order of its own set, independent of the other sets
RECURSIVE NeighbourOrders(_, _)
NeighbourOrders(cgraph, k) ==
    IF k = 0 THEN {<<>>}
    ELSE {Append(f, o) : f \in NeighbourOrders(cgraph, k - 1), o \in SetOrders(cgraph[k])}

\* lines 112-124: the while loop of dfs; s = [stack, visited, component];
\* nbr[node] is the order in which line 121 iterates comparison_graph[node]
RECURSIVE dfs_loop(_, _, _)
dfs_loop(s, cgraph, nbr) ==
    IF s.stack = <<>> THEN s
    ELSE LET node == s.stack[Len(s.stack)]
             rest == SubSeq(s.stack, 1, Len(s.stack) - 1)
         IN  IF node \in s.visited
             THEN dfs_loop([s EXCEPT !.stack = rest], cgraph, nbr)
             ELSE LET seen == s.visited \cup {node}
                  IN  dfs_loop([stack |-> rest \o IterOrder(cgraph[node] \ seen, nbr[node]),
                                visited |-> seen,
                                component |-> Append(s.component, node)],
                               cgraph, nbr)

\* lines 126-128 after the first i entries of movies_to_rank; [visited, components]
RECURSIVE FindComponents(_, _, _, _)
FindComponents(order, i, cgraph, nbr) ==
    IF i = 0 THEN [visited |-> {}, components |-> <<>>]
    ELSE LET before == FindComponents(order, i - 1, cgraph, nbr)
             mid == order[i]
         IN  IF mid \in before.visited THEN before
             ELSE LET d == dfs_loop([stack |-> <<mid>>, visited |-> before.visited,
                                     component |-> <<>>], cgraph, nbr)
                  IN  [visited |-> d.visited,
                       components |-> Append(before.components, d.component)]

\* line 131: components.sort(key=lambda x: -len(x))
SortComponents(comps) ==
    StableSort(comps, [i \in DOMAIN comps |-> <<-Len(comps[i]), 0>>])

\* line 132
MainComponent(comps) ==
    IF comps # <<>> THEN Range(SortComponents(comps)[1]) ELSE {}

\* lines 141-145
ComponentInDegree(main, g) ==
    [mid \in main |-> Cardinality({from_node \in main : mid \in g[from_node]})]

\* lines 160-162 for one source mid, neighbours in iteration order
RECURSIVE DecrementNeighbors(_, _, _)
DecrementNeighbors(cid, neighbors, rem) ==
    IF neighbors = <<>> THEN cid
    ELSE LET neighbor == Head(neighbors)
             next == IF neighbor \in rem /\ neighbor \in DOMAIN cid
                     THEN [cid EXCEPT ![neighbor] = @ - 1] ELSE cid
         IN  DecrementNeighbors(next, Tail(neighbors), rem)

\* lines 157-162 for the sources from position i on; t is the loop state
RECURSIVE ProcessSources(_, _, _, _)
ProcessSources(t, sources, g, order) ==
    IF sources = <<>> THEN t
    ELSE LET mid == Head(sources)
             rem == t.remaining \ {mid}
         IN  ProcessSources(
                 [t EXCEPT !.rank_map = Put(@, mid, t.current_rank),
                           !.remaining = rem,
                           !.component_in_degree =
                               DecrementNeighbors(@, IterOrder(g[mid], order), rem)],
                 Tail(sources), g, order)

\* line 149; order is the order in which the set remaining is iterated
SourcesAllRemaining(t, order) == IterOrder(t.remaining, order)

Sources(t, order) ==
    IterOrder({mid \in t.remaining :
                  (IF mid \in DOMAIN t.component_in_degree
                   THEN t.component_in_degree[mid] ELSE 0) = 0}, order)

\* lines 147-164, one iteration of the while loop that is entered with
\* remaining non-empty; stopped records the break of line 154; order is the
\* order in which the set remaining is iterated in this iteration
TopoLayerRankCycle(t, g, order) ==
    LET sources == Sources(t, order)
    IN  IF sources = <<>>
        THEN LET pick == IterOrder(t.remaining, order)[1]
             IN  [t EXCEPT !.rank_map = Put(@, pick, t.current_rank),
                           !.unranked_ids = @ \cup (t.remaining \ {pick}),
                           !.stopped = TRUE]
        ELSE [ProcessSources(t, sources, g, order) EXCEPT !.current_rank = @ + 1]

TopoLayerDropCycle(t, g, order) ==
    LET sources == Sources(t, order)
    IN  IF sources = <<>>
        THEN [t EXCEPT !.stopped = TRUE]
        ELSE [ProcessSources(t, sources, g, order) EXCEPT !.current_rank = @ + 1]

TopoLayerSkipRank(t, g, order) ==
    LET sources == Sources(t, order)
    IN  IF sources = <<>>
        THEN [t EXCEPT !.unranked_ids = @ \cup t.remaining, !.stopped = TRUE]
        ELSE [ProcessSources(t, sources, g, order) EXCEPT !.current_rank = @ + 2]

TopoLayer(t, g, order) ==
    LET sources == Sources(t, order)
    IN  IF sources = <<>>
        THEN [t EXCEPT !.unranked_ids = @ \cup t.remaining, !.stopped = TRUE]
        ELSE [ProcessSources(t, sources, g, order) EXCEPT !.current_rank = @ + 1]

\* lines 147-164
RECURSIVE TopoSort(_, _, _)
TopoSort(t, g, order) ==
    IF t.remaining = {} \/ t.stopped THEN t
    ELSE TopoSort(TopoLayer(t, g, order), g, order)

\* lines 133-145: the loop state before the first iteration
TopoStart(order, main, g) ==
    [rank_map |-> EmptyDict,
     remaining |-> main,
     current_rank |-> 1,
     component_in_degree |-> ComponentInDegree(main, g),
     unranked_ids |-> {mid \in Range(order) : mid \notin main},
     stopped |-> FALSE]

\* lines 55-166; order is the iteration order of compared_movie_ids, nbr
\* the iteration orders of the sets of comparison_graph, rem_order that of
\* the set remaining
compute_user_rankings(prefs, unwatched_movie_ids, order, nbr, rem_order) ==
    IF prefs = <<>> \/ order = <<>>
    THEN [rank_map |-> EmptyDict, unranked_set |-> {}]
    ELSE LET movie_ids_set == Range(order)
             g == BuildGraph(prefs, movie_ids_set, Len(prefs)).graph
             cgraph == BuildComparisonGraph(prefs, movie_ids_set)
             comps == FindComponents(order, Len(order), cgraph, nbr).components
             main == MainComponent(comps)
             t == TopoSort(TopoStart(order, main, g), g, rem_order)
         IN  [rank_map |-> t.rank_map, unranked_set |-> t.unranked_ids]

-----------------------------------------------------------------------------
(* visualize_condorcet.py: compute_condorcet_matrix, lines 201-224         *)

\* lines 210-222 for one entry of user_rankings: what it adds to matrix[i][j]
VoteForTieCounts(rm, movie_a, movie_b) ==
    IF movie_a \in DOMAIN rm /\ movie_b \in DOMAIN rm
    THEN (IF rm[movie_a] <= rm[movie_b] THEN 1 ELSE 0)
    ELSE IF movie_a \in DOMAIN rm /\ movie_b \notin DOMAIN rm THEN 1
    ELSE 0

VoteFor(rm, movie_a, movie_b) ==
    IF movie_a \in DOMAIN rm /\ movie_b \in DOMAIN rm
    THEN (IF rm[movie_a] < rm[movie_b] THEN 1 ELSE 0)
    ELSE IF movie_a \in DOMAIN rm /\ movie_b \notin DOMAIN rm THEN 1
    ELSE 0

\* line 209: the loop over user_rankings.items(), after the first k entries
RECURSIVE CountVotes(_, _, _, _)
CountVotes(rankings, k, movie_a, movie_b) ==
    IF k = 0 THEN 0
    ELSE CountVotes(rankings, k - 1, movie_a, movie_b)
         + VoteFor(rankings[k].rank_map, movie_a, movie_b)

\* lines 202-224
BuildMatrix(ids, rankings) ==
    [i \in DOMAIN ids |-> [j \in DOMAIN ids |->
        IF i = j THEN 0 ELSE CountVotes(rankings, Len(rankings), ids[i], ids[j])]]

-----------------------------------------------------------------------------
(* visualize_condorcet.py: compute_ranked_pairs                            *)

\* range(n) in ascending order, as a sequence
Ascending(S) ==
    [r \in 1..Cardinality(S) |-> CHOOSE x \in S : Cardinality({y \in S : y < x}) = r - 1]

\* lines 233-241 from the loop position (i, j) on; a pair is
\* (winner, loser, margin, votes of the winner)
RECURSIVE CollectPairs(_, _, _, _)
CollectPairs(m, n, i, j) ==
    IF i >= n THEN <<>>
    ELSE IF j >= n THEN CollectPairs(m, n, i + 1, i + 2)
    ELSE LET votes_i == m[i][j]
             votes_j == m[j][i]
             here == IF votes_i > votes_j THEN << <<i, j, votes_i - votes_j, votes_i>> >>
                     ELSE IF votes_j > votes_i THEN << <<j, i, votes_j - votes_i, votes_j>> >>
                     ELSE <<>>
         IN  here \o CollectPairs(m, n, i, j + 1)

\* line 244: pairs.sort(key=lambda x: (-x[2], -x[3]))
SortPairsByMarginOnly(ps) ==
    StableSort(ps, [k \in DOMAIN ps |-> <<-ps[k][3], 0>>])

SortPairs(ps) ==
    StableSort(ps, [k \in DOMAIN ps |-> <<-ps[k][3], -ps[k][4]>>])

\* lines 249-260: the while loop; the order in which the locked successors are
\* pushed does not change the returned truth value, they are pushed ascending
RECURSIVE cycle_loop(_, _, _, _)
cycle_loop(stack, visited, winner, lk) ==
    IF stack = <<>> THEN FALSE
    ELSE LET current == stack[Len(stack)]
             rest == SubSeq(stack, 1, Len(stack) - 1)
         IN  IF current = winner THEN TRUE
             ELSE IF current \in visited THEN cycle_loop(rest, visited, winner, lk)
             ELSE cycle_loop(rest \o Ascending(lk[current]),
                             visited \cup {current}, winner, lk)

would_create_cycleNever(winner, loser, lk) == FALSE

would_create_cycleDirectOnly(winner, loser, lk) == winner \in lk[loser]

would_create_cycle(winner, loser, lk) == cycle_loop(<<loser>>, {}, winner, lk)

\* lines 262-264, one iteration
LockPair(lk, pair) ==
    IF ~would_create_cycle(pair[1], pair[2], lk)
    THEN [lk EXCEPT ![pair[1]] = @ \cup {pair[2]}]
    ELSE lk

\* lines 247, 262-264 after the first k pairs
RECURSIVE LockPairs(_, _, _)
LockPairs(ps, k, n) ==
    IF k = 0 THEN [i \in 0..(n - 1) |-> {}]
    ELSE LockPair(LockPairs(ps, k - 1, n), ps[k])

\* lines 267-270
FinalInDegreeZero(lk, n) == [i \in 0..(n - 1) |-> 0]

FinalInDegree(lk, n) ==
    [i \in 0..(n - 1) |-> Cardinality({winner \in 0..(n - 1) : i \in lk[winner]})]

\* sorted(..., key=lambda i: movie_titles[i]) and sources.sort(key=...)
SortByTitleDescending(seq, titles) ==
    StableSort(seq, [k \in DOMAIN seq |-> <<-titles[seq[k]], 0>>])

SortByTitle(seq, titles) ==
    StableSort(seq, [k \in DOMAIN seq |-> <<titles[seq[k]], 0>>])

\* lines 288-289 for one source
RECURSIVE FinalDecrement(_, _)
FinalDecrement(deg, neighbors) ==
    IF neighbors = <<>> THEN deg
    ELSE FinalDecrement([deg EXCEPT ![Head(neighbors)] = @ - 1], Tail(neighbors))

\* lines 285-289 for the sorted sources still to process
RECURSIVE EmitSources(_, _, _)
EmitSources(t, sources, lk) ==
    IF sources = <<>> THEN t
    ELSE LET s == Head(sources)
         IN  EmitSources([t EXCEPT !.ranking = Append(@, s),
                                   !.remaining = @ \ {s},
                                   !.in_degree = FinalDecrement(@, Ascending(lk[s]))],
                         Tail(sources), lk)

\* lines 275-289, one iteration of the while loop; order is the iteration
\* order of the set remaining
FinalLayerAllCandidates(t, lk, titles, order) ==
    LET sources == IterOrder({i \in DOMAIN t.in_degree : t.in_degree[i] = 0},
                             Ascending(DOMAIN t.in_degree))
    IN  IF sources = <<>>
        THEN [t EXCEPT !.ranking = @ \o SortByTitle(IterOrder(t.remaining, order), titles),
                       !.stopped = TRUE, !.fallback = TRUE]
        ELSE EmitSources(t, SortByTitle(sources, titles), lk)

FinalLayer(t, lk, titles, order) ==
    LET sources == IterOrder({i \in t.remaining : t.in_degree[i] = 0}, order)
    IN  IF sources = <<>>
        THEN [t EXCEPT !.ranking = @ \o SortByTitle(IterOrder(t.remaining, order), titles),
                       !.stopped = TRUE, !.fallback = TRUE]
        ELSE EmitSources(t, SortByTitle(sources, titles), lk)

\* lines 266-273: the loop state before the first iteration
FinalStart(lk, n) ==
    [ranking |-> <<>>, remaining |-> 0..(n - 1), in_degree |-> FinalInDegree(lk, n),
     stopped |-> FALSE, fallback |-> FALSE]

\* lines 275-289
RECURSIVE FinalSort(_, _, _, _)
FinalSort(t, lk, titles, order) ==
    IF t.remaining = {} \/ t.stopped THEN t
    ELSE FinalSort(FinalLayer(t, lk, titles, order), lk, titles, order)

\* lines 227-291 with the sets iterated in the order given
compute_ranked_pairs(n, titles, m, order) ==
    LET ps == SortPairs(CollectPairs(m, n, 0, 1))
        lk == LockPairs(ps, Len(ps), n)
    IN  [ranking |-> FinalSort(FinalStart(lk, n), lk, titles, order).ranking,
         locked |-> lk]

-----------------------------------------------------------------------------
(* visualize_vote.py: compute_user_rankings and compute_vote_matrix        *)

\* lines 53-63, one iteration; returns [graph, in_degree]
vote_add_edge(g, stmt, to_rank_set) ==
    LET a == stmt[1]
        b == stmt[2]
        p == stmt[3]
    IN  IF a \notin to_rank_set \/ b \notin to_rank_set THEN g
        ELSE IF p > 0 THEN
            IF b \notin g.graph[a] THEN
                [graph |-> [g.graph EXCEPT ![a] = @ \cup {b}],
                 in_degree |-> [g.in_degree EXCEPT ![b] = @ + 1]]
            ELSE g
        ELSE IF p < 0 THEN
            IF a \notin g.graph[b] THEN
                [graph |-> [g.graph EXCEPT ![b] = @ \cup {a}],
                 in_degree |-> [g.in_degree EXCEPT ![a] = @ + 1]]
            ELSE g
        ELSE g

\* lines 50-63 after the first k statements
RECURSIVE vote_graph(_, _, _)
vote_graph(prefs, to_rank_set, k) ==
    IF k = 0 THEN [graph |-> EmptyGraph, in_degree |-> [oid \in to_rank_set |-> 0]]
    ELSE vote_add_edge(vote_graph(prefs, to_rank_set, k - 1), prefs[k], to_rank_set)

\* lines 66-70 after the first k statements
RECURSIVE vote_comp_graph(_, _, _)
vote_comp_graph(prefs, to_rank_set, k) ==
    IF k = 0 THEN EmptyGraph
    ELSE LET cg == vote_comp_graph(prefs, to_rank_set, k - 1)
             a == prefs[k][1]
             b == prefs[k][2]
         IN  IF a \in to_rank_set /\ b \in to_rank_set
             THEN [x \in Ids |-> IF x = a THEN cg[x] \cup {b}
                                 ELSE IF x = b THEN cg[x] \cup {a}
                                 ELSE cg[x]]
             ELSE cg

\* lines 79-87: the inner while loop; s = [stack, visited, component];
\* nbr[node] is the order in which line 85 iterates comp_graph[node]
RECURSIVE vote_walk(_, _, _)
vote_walk(s, comp_graph, nbr) ==
    IF s.stack = <<>> THEN s
    ELSE LET node == s.stack[Len(s.stack)]
             popped == SubSeq(s.stack, 1, Len(s.stack) - 1)
         IN  IF node \in s.visited
             THEN vote_walk([s EXCEPT !.stack = popped], comp_graph, nbr)
             ELSE LET visited == s.visited \cup {node}
                      pushed == IterOrder({n \in comp_graph[node] : n \notin visited},
                                          nbr[node])
                  IN  vote_walk([stack |-> popped \o pushed, visited |-> visited,
                                 component |-> Append(s.component, node)],
                                comp_graph, nbr)

\* lines 72-88 after the first i entries of to_rank; [visited, components]
RECURSIVE vote_components(_, _, _, _)
vote_components(to_rank, i, comp_graph, nbr) ==
    IF i = 0 THEN [visited |-> {}, components |-> <<>>]
    ELSE LET before == vote_components(to_rank, i - 1, comp_graph, nbr)
             oid == to_rank[i]
         IN  IF oid \in before.visited THEN before
             ELSE LET w == vote_walk([stack |-> <<oid>>, visited |-> before.visited,
                                      component |-> <<>>], comp_graph, nbr)
                  IN  [visited |-> w.visited,
                       components |-> Append(before.components, w.component)]

\* lines 90-91
vote_main(comps) ==
    IF comps # <<>>
    THEN Range(StableSort(comps, [i \in DOMAIN comps |-> <<-Len(comps[i]), 0>>])[1])
    ELSE {}

\* lines 93-97
vote_comp_in_deg(main, g) ==
    [t \in main |-> Cardinality({f \in main : t \in g[f]})]

\* lines 106-111 for the sources still to process; s = [rank_map, remaining, comp_in_deg]
RECURSIVE vote_rank_sources(_, _, _, _, _)
vote_rank_sources(s, sources, rank, g, to_rank) ==
    IF sources = <<>> THEN s
    ELSE LET oid == Head(sources)
             rem == s.remaining \ {oid}
             hit == {n \in g[oid] : n \in rem}
         IN  vote_rank_sources(
                 [rank_map |-> Put(s.rank_map, oid, rank),
                  remaining |-> rem,
                  comp_in_deg |-> [n \in DOMAIN s.comp_in_deg |->
                                      IF n \in hit THEN s.comp_in_deg[n] - 1
                                      ELSE s.comp_in_deg[n]]],
                 Tail(sources), rank, g, to_rank)

\* lines 102-112: the while loop from rank on; rem_order is the order in
\* which the set remaining is iterated
RECURSIVE vote_topo(_, _, _, _)
vote_topo(s, rank, g, rem_order) ==
    IF s.remaining = {} THEN s.rank_map
    ELSE LET sources == IterOrder({oid \in s.remaining :
                                      (IF oid \in DOMAIN s.comp_in_deg
                                       THEN s.comp_in_deg[oid] ELSE 0) = 0}, rem_order)
         IN  IF sources = <<>> THEN s.rank_map
             ELSE vote_topo(vote_rank_sources(s, sources, rank, g, rem_order),
                            rank + 1, g, rem_order)

\* lines 34-114; to_rank is the iteration order of the set compared, nbr
\* the iteration orders of the sets of comp_graph, rem_order that of the
\* set remaining
vote_compute_user_rankings(prefs, option_ids_set, to_rank, nbr, rem_order) ==
    IF prefs = <<>> \/ to_rank = <<>> THEN EmptyDict
    ELSE LET to_rank_set == Range(to_rank)
             g == vote_graph(prefs, to_rank_set, Len(prefs)).graph
             comp_graph == vote_comp_graph(prefs, to_rank_set, Len(prefs))
             comps == vote_components(to_rank, Len(to_rank), comp_graph, nbr).components
             main == vote_main(comps)
         IN  vote_topo([rank_map |-> EmptyDict, remaining |-> main,
                        comp_in_deg |-> vote_comp_in_deg(main, g)], 1, g, rem_order)

\* lines 145-152 for one rank map
vote_increment(rm, a, b) ==
    IF a \in DOMAIN rm /\ b \in DOMAIN rm
    THEN (IF rm[a] < rm[b] THEN 1 ELSE 0)
    ELSE IF a \in DOMAIN rm /\ b \notin DOMAIN rm THEN 1
    ELSE 0

\* line 145 after the first k rank maps
RECURSIVE vote_count(_, _, _, _)
vote_count(rank_maps, k, a, b) ==
    IF k = 0 THEN 0
    ELSE vote_count(rank_maps, k - 1, a, b) + vote_increment(rank_maps[k], a, b)

\* lines 131-154; rank_maps are the values of user_rankings in insertion order
compute_vote_matrix(option_ids, rank_maps) ==
    [i \in DOMAIN option_ids |-> [j \in DOMAIN option_ids |->
        IF i = j THEN 0
        ELSE vote_count(rank_maps, Len(rank_maps), option_ids[i], option_ids[j])]]

-----------------------------------------------------------------------------
(* The pipeline as a state machine.                                        *)

\* the statements of the attendee at hand and the target set of line 175
Prefs == all_prefs[attendees[u]]
Targets == Range(movie_ids)
N == Cardinality(DOMAIN movie_ids)

NoVoterLocals ==
    /\ movies_to_rank = <<>>
    /\ graph = EmptyGraph
    /\ in_degree = EmptyDict
    /\ comparison_graph = EmptyGraph
    /\ components = <<>>
    /\ main_component = {}
    /\ unranked_ids = {}
    /\ rank_map = EmptyDict
    /\ remaining = {}
    /\ component_in_degree = EmptyDict
    /\ current_rank = 1

NoRankedPairs ==
    /\ movie_titles = <<>>
    /\ pairs = <<>>
    /\ next_pair = 1
    /\ locked = <<>>
    /\ final_in_degree = <<>>
    /\ ranking = <<>>
    /\ final_remaining = {}
    /\ fallback_taken = FALSE

NoVoteScript ==
    /\ vote_rankings = <<>>
    /\ vote_matrix = <<>>

TotalPrefs(lists) ==
    LET RECURSIVE Sum(_)
        Sum(k) == IF k = 0 THEN 0 ELSE Sum(k - 1) + Len(lists[k])
    IN  Sum(Len(lists))

\* the full pipeline: the rows of the attendance query (the query has no
\* DISTINCT, a user id may come twice), the statements of the users in it
\* (no other user's statements are read) and the unwatched movies
Init ==
    /\ pc = "load"
    /\ movie_ids = SortedIds(Ids)
    /\ attendees \in [1..NumRows -> 1..NumVoters]
    /\ all_prefs \in {l \in [1..NumVoters -> ListsUpTo(Statements(Ids), MaxTotalPrefs)] :
                          /\ TotalPrefs(l) <= MaxTotalPrefs
                          /\ \A v \in 1..NumVoters :
                                v \notin Range(attendees) => l[v] = <<>>}
    /\ u = 1
    /\ user_rankings = <<>>
    /\ matrix = <<>>
    /\ NoVoterLocals
    /\ NoRankedPairs
    /\ NoVoteScript

\* one voter with a longer statement list
InitVoter ==
    /\ pc = "load"
    /\ \E targets \in TargetSets : movie_ids = SortedIds(targets)
    /\ attendees = <<1>>
    /\ \E prefs \in PrefLists : all_prefs = <<prefs>>
    /\ u = 1
    /\ user_rankings = <<>>
    /\ matrix = <<>>
    /\ NoVoterLocals
    /\ NoRankedPairs
    /\ NoVoteScript

\* compute_ranked_pairs called on an arbitrary matrix
InitRP ==
    /\ pc = "pairs"
    /\ movie_ids = [i \in 0..(NumCands - 1) |-> i + 1]
    /\ matrix \in {m \in [0..(NumCands - 1) -> [0..(NumCands - 1) -> 0..MaxVotes]] :
                      \A i \in 0..(NumCands - 1) : m[i][i] = 0}
    /\ attendees = <<>>
    /\ all_prefs = <<>>
    /\ u = 1
    /\ user_rankings = <<>>
    /\ NoVoterLocals
    /\ NoRankedPairs
    /\ NoVoteScript

\* the locals of a compute_user_rankings call before it has assigned them
FreshLocals ==
    /\ graph' = EmptyGraph
    /\ in_degree' = EmptyDict
    /\ comparison_graph' = EmptyGraph
    /\ components' = <<>>
    /\ main_component' = {}
    /\ unranked_ids' = {}
    /\ rank_map' = EmptyDict
    /\ remaining' = {}
    /\ component_in_degree' = EmptyDict
    /\ current_rank' = 1

\* lines 193-196 and 60-74: the next attendee's statements are read and
\* compute_user_rankings is entered; the iteration order of the set
\* compared_movie_ids is drawn here
LoadVoter ==
    /\ pc = "load"
    /\ u <= Len(attendees)
    /\ IF Prefs = <<>>
       THEN /\ u' = u + 1
            /\ pc' = "load"
            /\ UNCHANGED voter_vars
       ELSE /\ \E order \in SetOrders(ToRankSet(Prefs, Targets)) :
                   movies_to_rank' = order
            /\ pc' = IF ToRankSet(Prefs, Targets) = {} THEN "return" ELSE "graph"
            /\ FreshLocals
            /\ u' = u
    /\ UNCHANGED <<movie_ids, attendees, all_prefs, user_rankings, matrix, rp_vars, vote_vars>>

\* lines 76-106
BuildGraphs ==
    /\ pc = "graph"
    /\ LET g == BuildGraph(Prefs, Range(movies_to_rank), Len(Prefs))
       IN  /\ graph' = g.graph
           /\ in_degree' = g.in_degree
    /\ comparison_graph' = BuildComparisonGraph(Prefs, Range(movies_to_rank))
    /\ pc' = "components"
    /\ UNCHANGED <<movie_ids, attendees, all_prefs, u, movies_to_rank, components, main_component,
                   unranked_ids, rank_map, remaining, component_in_degree, current_rank,
                   user_rankings, matrix, rp_vars, vote_vars>>

\* lines 108-145; the order in which line 121 iterates each adjacency set
\* is drawn here
FindMainComponent ==
    /\ pc = "components"
    /\ \E nbr \in NeighbourOrders(comparison_graph, NumIds) :
       LET comps == FindComponents(movies_to_rank, Len(movies_to_rank),
                                   comparison_graph, nbr).components
           main == MainComponent(comps)
           t == TopoStart(movies_to_rank, main, graph)
       IN  /\ components' = SortComponents(comps)
           /\ main_component' = main
           /\ unranked_ids' = t.unranked_ids
           /\ rank_map' = t.rank_map
           /\ remaining' = t.remaining
           /\ component_in_degree' = t.component_in_degree
           /\ current_rank' = t.current_rank
    /\ pc' = "topo"
    /\ UNCHANGED <<movie_ids, attendees, all_prefs, u, movies_to_rank, graph, in_degree,
                   comparison_graph, user_rankings, matrix, rp_vars, vote_vars>>

\* the loop state of lines 147-164 as the variables hold it
LoopState ==
    [rank_map |-> rank_map, remaining |-> remaining, current_rank |-> current_rank,
     component_in_degree |-> component_in_degree, unranked_ids |-> unranked_ids,
     stopped |-> FALSE]

\* lines 147-164, one iteration of the while loop; the order in which
\* line 149 iterates the set remaining is drawn here
TopoStep ==
    /\ pc = "topo"
    /\ remaining # {}
    /\ \E order \in SetOrders(remaining) :
       LET t == TopoLayer(LoopState, graph, order)
       IN  /\ rank_map' = t.rank_map
           /\ remaining' = t.remaining
           /\ current_rank' = t.current_rank
           /\ component_in_degree' = t.component_in_degree
           /\ unranked_ids' = t.unranked_ids
           /\ pc' = IF t.stopped \/ t.remaining = {} THEN "return" ELSE "topo"
    /\ UNCHANGED <<movie_ids, attendees, all_prefs, u, movies_to_rank, graph, in_degree,
                   comparison_graph, components, main_component, user_rankings,
                   matrix, rp_vars, vote_vars>>

\* line 197: user_rankings[user_id] = entry; a dict keeps one entry per
\* key, at the place of the key's first insertion
StoreRanking(rankings, user_id, rm, unranked) ==
    LET entry == [user_id |-> user_id, rank_map |-> rm, unranked_set |-> unranked]
    IN  IF \E k \in DOMAIN rankings : rankings[k].user_id = user_id
        THEN [k \in DOMAIN rankings |->
                 IF rankings[k].user_id = user_id THEN entry ELSE rankings[k]]
        ELSE Append(rankings, entry)

\* lines 166 and 196-197
ReturnRanking ==
    /\ pc = "return"
    /\ user_rankings' = StoreRanking(user_rankings, attendees[u], rank_map, unranked_ids)
    /\ u' = u + 1
    /\ pc' = "load"
    /\ UNCHANGED <<movie_ids, attendees, all_prefs, voter_vars, matrix, rp_vars, vote_vars>>

\* lines 201-224; the locals of the last compute_user_rankings call are gone
ComputeMatrix ==
    /\ pc = "load"
    /\ u > Len(attendees)
    /\ matrix' = BuildMatrix(movie_ids, user_rankings)
    /\ pc' = "pairs"
    /\ movies_to_rank' = <<>>
    /\ FreshLocals
    /\ UNCHANGED <<movie_ids, attendees, all_prefs, u, user_rankings, rp_vars, vote_vars>>

\* lines 229-247; the titles of the candidates are read here
StartRankedPairs ==
    /\ pc = "pairs"
    /\ movie_titles' \in [DOMAIN movie_ids -> 1..NumLabels]
    /\ pairs' = SortPairs(CollectPairs(matrix, N, 0, 1))
    /\ next_pair' = 1
    /\ locked' = [i \in 0..(N - 1) |-> {}]
    /\ pc' = "lock"
    /\ UNCHANGED <<movie_ids, attendees, all_prefs, u, voter_vars, user_rankings, matrix,
                   final_in_degree, ranking, final_remaining, fallback_taken, vote_vars>>

\* lines 262-264, one iteration
LockStep ==
    /\ pc = "lock"
    /\ next_pair <= Len(pairs)
    /\ locked' = LockPair(locked, pairs[next_pair])
    /\ next_pair' = next_pair + 1
    /\ UNCHANGED <<pc, movie_ids, attendees, all_prefs, u, voter_vars, user_rankings, matrix,
                   movie_titles, pairs, final_in_degree, ranking, final_remaining,
                   fallback_taken, vote_vars>>

\* lines 266-273
StartFinalSort ==
    /\ pc = "lock"
    /\ next_pair > Len(pairs)
    /\ LET t == FinalStart(locked, N)
       IN  /\ final_in_degree' = t.in_degree
           /\ ranking' = t.ranking
           /\ final_remaining' = t.remaining
           /\ pc' = IF t.remaining = {} THEN "done" ELSE "final"
    /\ UNCHANGED <<movie_ids, attendees, all_prefs, u, voter_vars, user_rankings, matrix,
                   movie_titles, pairs, next_pair, locked, fallback_taken, vote_vars>>

\* line 276 as a set
FinalSources == {i \in final_remaining : final_in_degree[i] = 0}

\* lines 275-289, one iteration of the while loop; the iteration order of
\* the set remaining is drawn here, as the order it gives the list sources
\* (or, with no source, the list handed to sorted)
FinalStep ==
    /\ pc = "final"
    /\ final_remaining # {}
    /\ \E order \in SetOrders(IF FinalSources = {} THEN final_remaining
                                ELSE FinalSources) :
          LET t == FinalLayer([ranking |-> ranking, remaining |-> final_remaining,
                               in_degree |-> final_in_degree, stopped |-> FALSE,
                               fallback |-> FALSE],
                              locked, movie_titles, order)
          IN  /\ ranking' = t.ranking
              /\ final_remaining' = t.remaining
              /\ final_in_degree' = t.in_degree
              /\ fallback_taken' = t.fallback
              /\ pc' = IF t.stopped \/ t.remaining = {} THEN "done" ELSE "final"
    /\ UNCHANGED <<movie_ids, attendees, all_prefs, u, voter_vars, user_rankings, matrix,
                   movie_titles, pairs, next_pair, locked, vote_vars>>

\* visualize_vote.py lines 136-139 for the attendee whose ranking
\* visualize_condorcet.py has just computed; the script runs on its own, so
\* its sets have their own iteration orders, drawn here (the sources of a
\* layer are ranked as a set, they are walked in the order of to_rank)
VoteRankUser ==
    /\ pc = "return"
    /\ Len(vote_rankings) = Len(user_rankings)
    /\ \E to_rank \in SetOrders(ToRankSet(Prefs, Targets)) :
       \E nbr \in NeighbourOrders(
                    vote_comp_graph(Prefs, Range(to_rank), Len(Prefs)), NumIds) :
          vote_rankings' = Append(vote_rankings,
              vote_compute_user_rankings(Prefs, Targets, to_rank, nbr, to_rank))
    /\ UNCHANGED <<pc, movie_ids, attendees, all_prefs, u, voter_vars, user_rankings, matrix,
                   rp_vars, vote_matrix>>

\* visualize_vote.py lines 131-154
VoteMatrix ==
    /\ pc = "pairs"
    /\ vote_matrix = <<>>
    /\ Len(vote_rankings) = Len(user_rankings)
    /\ vote_matrix' = compute_vote_matrix(movie_ids, vote_rankings)
    /\ UNCHANGED <<pc, movie_ids, attendees, all_prefs, u, voter_vars, user_rankings, matrix,
                   rp_vars, vote_rankings>>

VoterStage ==
    \/ LoadVoter
    \/ BuildGraphs
    \/ FindMainComponent
    \/ TopoStep
    \/ ReturnRanking
    \/ ComputeMatrix

RankedPairsStage ==
    \/ StartRankedPairs
    \/ LockStep
    \/ StartFinalSort
    \/ FinalStep

Next == VoterStage \/ RankedPairsStage

NextVoter == VoterStage \/ VoteRankUser \/ VoteMatrix

NextRP == RankedPairsStage

Spec == Init /\ [][Next]_vars

SpecVoter == InitVoter /\ [][NextVoter]_vars

SpecRP == InitRP /\ [][NextRP]_vars

-----------------------------------------------------------------------------
(* Properties of compute_ranked_pairs, checked under SpecRP.               *)

\* the candidates reachable from the set S over the edges of lk
RECURSIVE ReachableFrom(_, _)
ReachableFrom(S, lk) ==
    LET more == S \cup UNION {lk[x] : x \in S}
    IN  IF more = S THEN S ELSE ReachableFrom(more, lk)

\* a non-empty path of edges of lk leads from c back to c
OnCycle(c, lk) == c \in ReachableFrom(lk[c], lk)

LockingStarted == pc \in {"lock", "final", "done"}

\* C1: after every lock step and at return the locked graph has no directed
\* cycle: no candidate reaches itself over a non-empty path of locked edges.
C1_LockedAcyclic ==
    LockingStarted => \A c \in DOMAIN locked : ~OnCycle(c, locked)

\* a pair of a majority cycle was refused: three pairs were generated, not
\* all of them are locked at return
C1_Witness ==
    /\ pc = "done"
    /\ Len(pairs) = 3
    /\ \E k \in DOMAIN pairs : pairs[k][2] \notin locked[pairs[k][1]]
    /\ \A i \in DOMAIN matrix : \E j \in DOMAIN matrix : matrix[i][j] > matrix[j][i]

\* C2: the returned ranking has length N and holds each candidate index
\* 0..N-1 exactly once.
C2_RankingIsPermutation ==
    pc = "done" =>
        /\ Len(ranking) = N
        /\ \A c \in 0..(N - 1) :
              Cardinality({k \in DOMAIN ranking : ranking[k] = c}) = 1

\* the zero matrix, and a matrix with locked edges, both ranked to the end
C2_Witness ==
    /\ pc = "done"
    /\ Len(ranking) = N
    /\ \A i, j \in DOMAIN matrix : matrix[i][j] = 0
    /\ locked = [i \in 0..(N - 1) |-> {}]

-----------------------------------------------------------------------------
(* Properties of the matrix, checked under Spec.                           *)

MatrixBuilt == pc \in {"pairs", "lock", "final", "done"}

\* the users whose ranking counts for candidate a over candidate b
VotersFor(a, b) ==
    {user_rankings[k].user_id : k \in {x \in DOMAIN user_rankings :
        LET rm == user_rankings[x].rank_map
        IN  a \in DOMAIN rm /\ (b \notin DOMAIN rm \/ rm[a] < rm[b])}}

\* C3: the matrix is the reference tally: zero on the diagonal, and off it
\* matrix[i][j] is the number of voters who rank i and either do not rank j
\* or rank i strictly better; so no entry exceeds the number of voters.
\* A voter is one user id: user_rankings holds at most one entry per user,
\* however many attendance rows the user has.
C3_MatrixIsTally ==
    MatrixBuilt =>
      /\ \A k, l \in DOMAIN user_rankings :
            user_rankings[k].user_id = user_rankings[l].user_id => k = l
      /\ \A i, j \in DOMAIN movie_ids :
            /\ i = j => matrix[i][j] = 0
            /\ i # j => matrix[i][j] = Cardinality(VotersFor(movie_ids[i], movie_ids[j]))
            /\ matrix[i][j] >= 0
            /\ matrix[i][j] <= Cardinality(Range(attendees))

\* two voters agree on one pair, one of them ties another pair or leaves a
\* candidate unranked
C3_Witness ==
    /\ pc = "pairs"
    /\ Len(user_rankings) = 2
    /\ \E i, j \in DOMAIN movie_ids : matrix[i][j] = 2 /\ matrix[j][i] = 0
    /\ \E i, j \in DOMAIN movie_ids : i # j /\ matrix[i][j] = 1

-----------------------------------------------------------------------------
(* Properties of compute_user_rankings, checked under SpecVoter.           *)

\* the statement says winner over loser
Says(stmt, winner, loser) ==
    \/ stmt[3] > 0 /\ winner = stmt[1] /\ loser = stmt[2]
    \/ stmt[3] < 0 /\ winner = stmt[2] /\ loser = stmt[1]

Endpoints(stmt) == {stmt[1], stmt[2]}

\* C4: the keys of rank_map and the unranked set are disjoint and together
\* are exactly the compared candidates that are in the target set.
C4_RankedUnrankedPartition ==
    /\ pc = "return" =>
          /\ DOMAIN rank_map \cap unranked_ids = {}
          /\ DOMAIN rank_map \cup unranked_ids
                = {c \in Targets : \E i \in DOMAIN Prefs : c \in Endpoints(Prefs[i])}
    /\ \A k \in DOMAIN user_rankings :
          LET r == user_rankings[k]
              prefs == all_prefs[r.user_id]
          IN  /\ DOMAIN r.rank_map \cap r.unranked_set = {}
              /\ DOMAIN r.rank_map \cup r.unranked_set
                    = {c \in Targets : \E i \in DOMAIN prefs : c \in Endpoints(prefs[i])}

\* a voter with ranked and unranked candidates who also compared a
\* candidate outside the target set
C4_Witness ==
    /\ pc = "return"
    /\ DOMAIN rank_map # {}
    /\ unranked_ids # {}
    /\ \E i \in DOMAIN Prefs : Endpoints(Prefs[i]) \ Targets # {}

\* no remaining candidate has in-degree zero
NoSource == \A mid \in remaining : component_in_degree[mid] # 0

\* the directed preference graph restricted to the main component
MainGraph == [x \in Ids |-> IF x \in main_component THEN graph[x] \cap main_component ELSE {}]

\* the directed preferences of the list are exactly a over b, b over c, c over a
IsThreeCycle(prefs, a, b, c) ==
    /\ Cardinality({a, b, c}) = 3
    /\ Len(prefs) = 3
    /\ \A w, l \in Ids :
          (\E i \in DOMAIN prefs : Says(prefs[i], w, l))
              <=> (<<w, l>> \in {<<a, b>>, <<b, c>>, <<c, a>>})

C5_StepStops ==
    [][(pc = "topo" /\ NoSource) =>
          /\ rank_map' = rank_map
          /\ unranked_ids' = unranked_ids \cup remaining
          /\ pc' = "return"]_vars

C5_NoCycleMemberRanked ==
    pc = "return" => \A mid \in DOMAIN rank_map : ~OnCycle(mid, MainGraph)

C5_ThreeCycleUnranked ==
    \A a, b, c \in Targets :
        (Len(all_prefs) = 1 /\ IsThreeCycle(all_prefs[1], a, b, c)) =>
            /\ pc = "return" => rank_map = EmptyDict /\ unranked_ids = {a, b, c}
            /\ \A k \in DOMAIN vote_rankings : vote_rankings[k] = EmptyDict
            /\ pc = "pairs" => \A i, j \in DOMAIN matrix : matrix[i][j] = 0

\* C5: when candidates of the main component remain and none has in-degree
\* zero, the step moves all of them to unranked, ranks none and ends the sort;
\* no ranked candidate lies on a directed cycle; the voter of a three-cycle
\* gets an empty rank map, all three unranked, and an all-zero matrix.
C5_CycleGoesUnranked ==
    C5_StepStops /\ [](C5_NoCycleMemberRanked) /\ [](C5_ThreeCycleUnranked)

\* the voter of the three-cycle 1 over 2, 2 over 3, 3 over 1 after the matrix
\* is built
C5_Witness ==
    /\ pc = "pairs"
    /\ all_prefs = << << <<1, 2, 1>>, <<2, 3, 1>>, <<1, 3, -1>> >> >>
    /\ {1, 2, 3} \subseteq Targets
    /\ user_rankings[1].rank_map = EmptyDict
    /\ user_rankings[1].unranked_set = {1, 2, 3}
    /\ \A i, j \in DOMAIN matrix : matrix[i][j] = 0

\* C7: for every statement list and target set the rank map of
\* visualize_vote.py equals the rank_map of visualize_condorcet.py, and the
\* two matrices are equal entry by entry.
C7_SameRankMapAndMatrix ==
    /\ (pc = "return" /\ Len(vote_rankings) = Len(user_rankings) + 1)
          => vote_rankings[Len(vote_rankings)] = rank_map
    /\ (pc = "pairs" /\ vote_matrix # <<>>) =>
          /\ DOMAIN vote_matrix = DOMAIN matrix
          /\ \A i, j \in DOMAIN matrix : vote_matrix[i][j] = matrix[i][j]

\* the endpoints of the statements whose both endpoints are in the target set
BothTargetEndpoints(prefs, targets) ==
    UNION {Endpoints(prefs[i]) : i \in {k \in DOMAIN prefs : Endpoints(prefs[k]) \subseteq targets}}

\* a target candidate the voter compared, but only against non-targets
OnlyNonTarget(c, prefs, targets) ==
    /\ c \in targets
    /\ \E i \in DOMAIN prefs : c \in Endpoints(prefs[i])
    /\ \A i \in DOMAIN prefs : c \in Endpoints(prefs[i]) => ~(Endpoints(prefs[i]) \subseteq targets)

PosOf(c) == CHOOSE i \in DOMAIN movie_ids : movie_ids[i] = c

\* C8 as stated: the compared candidates are the endpoints of the statements
\* with both endpoints in the target set, so a target compared only against
\* non-targets is in neither rank_map nor unranked and wins nothing.
C8_ComparedNeedsBothTargets ==
    /\ pc = "return" =>
          /\ Range(movies_to_rank) = BothTargetEndpoints(Prefs, Targets)
          /\ \A c \in Targets : OnlyNonTarget(c, Prefs, Targets) =>
                 c \notin DOMAIN rank_map /\ c \notin unranked_ids
    /\ MatrixBuilt =>
          \A k \in DOMAIN user_rankings : \A c \in Targets :
              OnlyNonTarget(c, all_prefs[user_rankings[k].user_id], Targets) =>
                  \A j \in DOMAIN movie_ids : matrix[PosOf(c)][j] = 0

\* C8: edges come only from statements with both endpoints in the target
\* set, but the candidates to rank are the target endpoints of any
\* statement; a target compared only against non-targets is an isolated
\* candidate that is unranked, or, when its singleton component is chosen,
\* ranked alone at rank 1 and then wins against every other candidate.
C8_ComparedIsAnyTargetEndpoint ==
    /\ pc = "return" =>
          /\ Range(movies_to_rank)
                = {c \in Targets : \E i \in DOMAIN Prefs : c \in Endpoints(Prefs[i])}
          /\ movies_to_rank # <<>> =>
                /\ \A x, y \in Ids : y \in graph[x] =>
                       \E i \in DOMAIN Prefs :
                           Says(Prefs[i], x, y) /\ Endpoints(Prefs[i]) \subseteq Targets
                /\ \A x, y \in Ids : y \in comparison_graph[x] =>
                       \E i \in DOMAIN Prefs :
                           Endpoints(Prefs[i]) = {x, y} /\ {x, y} \subseteq Targets
                /\ \A c \in Targets : OnlyNonTarget(c, Prefs, Targets) =>
                       /\ comparison_graph[c] = {}
                       /\ c \in DOMAIN rank_map \cup unranked_ids
                       /\ c \in DOMAIN rank_map =>
                              rank_map = [x \in {c} |-> 1] /\ main_component = {c}
    /\ MatrixBuilt =>
          \A k \in DOMAIN user_rankings : \A c \in Targets :
              (/\ OnlyNonTarget(c, all_prefs[user_rankings[k].user_id], Targets)
               /\ c \in DOMAIN user_rankings[k].rank_map) =>
                  \A d \in Targets \ {c} :
                      k \in VotersFor(c, d) /\ matrix[PosOf(c)][PosOf(d)] >= 1

\* a target compared only against a non-target is ranked first and beats
\* every other candidate in the matrix
C8_Witness ==
    /\ pc = "pairs"
    /\ \E c \in Targets :
          /\ OnlyNonTarget(c, all_prefs[1], Targets)
          /\ user_rankings[1].rank_map = [x \in {c} |-> 1]
          /\ \A d \in Targets \ {c} : matrix[PosOf(c)][PosOf(d)] = 1

\* statement k is about an unordered pair an earlier statement was about
LaterForPair(prefs, k) ==
    \E j \in 1..(k - 1) : Endpoints(prefs[j]) = Endpoints(prefs[k])

\* C9 as stated: a later statement for an unordered pair, repeating or
\* reversing, adds no edge and changes no in-degree.
C9_FirstPerUnorderedPair ==
    pc = "components" =>
        \A k \in DOMAIN Prefs :
            LaterForPair(Prefs, k) =>
                BuildGraph(Prefs, Range(movies_to_rank), k)
                    = BuildGraph(Prefs, Range(movies_to_rank), k - 1)

\* statement k states a direction that an earlier statement already stated
RepeatsDirection(prefs, k) ==
    \E j \in 1..(k - 1) : \E w, l \in Ids : Says(prefs[j], w, l) /\ Says(prefs[k], w, l)

\* C9: edges are kept once per ordered pair: a statement repeating an
\* already recorded direction changes nothing, a statement reversing the
\* pair adds the reverse edge and one in-degree; the graph holds w -> l
\* exactly when some statement between compared targets says so, and each
\* in-degree is the number of distinct predecessors.
C9_FirstPerOrderedPair ==
    pc = "components" =>
        LET S == Range(movies_to_rank)
        IN  /\ \A x, y \in Ids :
                  y \in graph[x] <=>
                      \E i \in DOMAIN Prefs : Says(Prefs[i], x, y) /\ {x, y} \subseteq S
            /\ \A x \in S : in_degree[x] = Cardinality({y \in Ids : x \in graph[y]})
            /\ \A k \in DOMAIN Prefs :
                  LET before == BuildGraph(Prefs, S, k - 1)
                      after == BuildGraph(Prefs, S, k)
                  IN  /\ RepeatsDirection(Prefs, k) => after = before
                      /\ \A w, l \in S :
                            (Says(Prefs[k], w, l) /\ ~RepeatsDirection(Prefs, k)) =>
                                /\ l \notin before.graph[w]
                                /\ after.graph[w] = before.graph[w] \cup {l}
                                /\ after.in_degree[l] = before.in_degree[l] + 1

\* a direction stated twice and then reversed: one edge each way
C9_Witness ==
    /\ pc = "components"
    /\ Prefs = << <<1, 2, 1>>, <<1, 2, 1>>, <<1, 2, -1>> >>
    /\ {1, 2} \subseteq Targets
    /\ graph[1] = {2} /\ graph[2] = {1}
    /\ in_degree[1] = 1 /\ in_degree[2] = 1

\* the candidates of a statement list in the order they first appear
RECURSIVE FirstAppearance(_, _)
FirstAppearance(prefs, k) ==
    IF k = 0 THEN <<>>
    ELSE LET sofar == FirstAppearance(prefs, k - 1)
             withA == IF prefs[k][1] \in Range(sofar) THEN sofar
                      ELSE Append(sofar, prefs[k][1])
         IN  IF prefs[k][2] \in Range(withA) THEN withA ELSE Append(withA, prefs[k][2])

\* the connected component of c in the undirected comparison graph
ComponentOf(c) == ReachableFrom({c}, comparison_graph)

\* C10: the ranked candidates come from one connected component of maximal
\* size; among components of that size it is the first discovered, in the
\* order the candidates first appear in the voter's statements; every
\* candidate outside it is unranked.
C10_FirstDiscoveredLargestComponent ==
    (pc = "return" /\ movies_to_rank # <<>>) =>
        LET S == Range(movies_to_rank)
            largest == {c \in S : \A d \in S :
                           Cardinality(ComponentOf(d)) <= Cardinality(ComponentOf(c))}
            appear == IterOrder(largest, FirstAppearance(Prefs, Len(Prefs)))
        IN  /\ \A c \in main_component : main_component = ComponentOf(c)
            /\ main_component \subseteq largest
            /\ DOMAIN rank_map \subseteq main_component
            /\ S \ main_component \subseteq unranked_ids
            /\ main_component = ComponentOf(appear[1])

-----------------------------------------------------------------------------
(* Determinism of the whole pipeline, checked under Spec.                  *)

\* user_rankings after the first k rows of attendees when every set is
\* iterated in the order its elements have in order
RECURSIVE RankingsUnder(_, _)
RankingsUnder(order, k) ==
    IF k = 0 THEN <<>>
    ELSE LET prefs == all_prefs[attendees[k]]
             to_rank == IterOrder(ToRankSet(prefs, Targets), order)
             cgraph == BuildComparisonGraph(prefs, Range(to_rank))
             r == compute_user_rankings(prefs, Targets, to_rank,
                      [x \in Ids |-> IterOrder(cgraph[x], order)], to_rank)
         IN  IF prefs = <<>> THEN RankingsUnder(order, k - 1)
             ELSE StoreRanking(RankingsUnder(order, k - 1), attendees[k],
                               r.rank_map, r.unranked_set)

\* C6: the matrix and the final ranking are a function of the statements,
\* the voters, the candidate order and the labels: whatever order the sets
\* were iterated in, they equal the outputs under ascending iteration.
C6_OutputsIndependentOfSetOrder ==
    pc = "done" =>
        /\ matrix = BuildMatrix(movie_ids, RankingsUnder(Ascending(Ids), Len(attendees)))
        /\ ranking = compute_ranked_pairs(N, movie_titles, matrix,
                                           Ascending(0..(N - 1))).ranking

-----------------------------------------------------------------------------
(* Properties of compute_ranked_pairs, checked under SpecRP.               *)

\* position of a pair in the generation order of lines 233-234
GenerationBefore(p, q) ==
    LET lo(x) == IF x[1] < x[2] THEN x[1] ELSE x[2]
        hi(x) == IF x[1] < x[2] THEN x[2] ELSE x[1]
    IN  lo(p) < lo(q) \/ (lo(p) = lo(q) /\ hi(p) < hi(q))

C11_PairsGeneratedAndSorted ==
    LockingStarted =>
        /\ \A i, j \in 0..(N - 1) : i < j =>
              Cardinality({k \in DOMAIN pairs : {pairs[k][1], pairs[k][2]} = {i, j}})
                  = IF matrix[i][j] # matrix[j][i] THEN 1 ELSE 0
        /\ \A k \in DOMAIN pairs :
              /\ matrix[pairs[k][1]][pairs[k][2]] > matrix[pairs[k][2]][pairs[k][1]]
              /\ pairs[k][3] = matrix[pairs[k][1]][pairs[k][2]] - matrix[pairs[k][2]][pairs[k][1]]
              /\ pairs[k][4] = matrix[pairs[k][1]][pairs[k][2]]
        /\ \A k, l \in DOMAIN pairs : k < l =>
              \/ pairs[k][3] > pairs[l][3]
              \/ pairs[k][3] = pairs[l][3] /\ pairs[k][4] > pairs[l][4]
              \/ /\ pairs[k][3] = pairs[l][3]
                 /\ pairs[k][4] = pairs[l][4]
                 /\ GenerationBefore(pairs[k], pairs[l])

C11_AttemptsFollowPairs ==
    [][(pc = "lock" /\ next_pair <= Len(pairs)) =>
          /\ next_pair' = next_pair + 1
          /\ pairs' = pairs
          /\ \A w \in DOMAIN locked :
                locked'[w] \ locked[w]
                    \subseteq (IF w = pairs[next_pair][1] THEN {pairs[next_pair][2]} ELSE {})]_vars

\* C11: one pair is generated for {i, j} exactly when the two entries
\* differ; the list the lock loop walks front to back is ordered by margin
\* descending, then winning votes descending, then generation order.
C11_PairOrder ==
    [](C11_PairsGeneratedAndSorted) /\ C11_AttemptsFollowPairs

\* all pairs attempted; the sort moved a later generated pair forward on
\* the winning votes at equal margin, and one exact tie produced no pair
C11_Witness ==
    /\ pc = "final"
    /\ Len(pairs) = 2
    /\ \E k, l \in DOMAIN pairs : k < l /\ GenerationBefore(pairs[l], pairs[k])
    /\ \E k, l \in DOMAIN pairs :
          k < l /\ pairs[k][3] = pairs[l][3] /\ pairs[k][4] > pairs[l][4]
    /\ \E i, j \in 0..(N - 1) : i < j /\ matrix[i][j] = matrix[j][i] /\ matrix[i][j] > 0

C12_SkipIffReachable ==
    [][(pc = "lock" /\ next_pair <= Len(pairs)) =>
          LET winner == pairs[next_pair][1]
              loser == pairs[next_pair][2]
          IN  IF winner \in ReachableFrom({loser}, locked)
              THEN locked' = locked
              ELSE locked' = [locked EXCEPT ![winner] = @ \cup {loser}]]_vars

C12_LockedOnlyGrows ==
    [][\A w \in DOMAIN locked : w \in DOMAIN locked' /\ locked[w] \subseteq locked'[w]]_vars

\* C12: a processed pair is skipped exactly when its winner is reachable
\* from its loser over the edges locked so far, and is locked otherwise; no
\* step ever removes a locked edge.
C12_LockOrSkip == C12_SkipIffReachable /\ C12_LockedOnlyGrows

\* two pairs were locked and the third was skipped because its winner is
\* reached from its loser over both of them
C12_Witness ==
    /\ pc = "lock"
    /\ next_pair = 4
    /\ Len(pairs) = 3
    /\ pairs[2][1] = pairs[1][2]
    /\ locked[pairs[1][1]] = {pairs[1][2]}
    /\ locked[pairs[2][1]] = {pairs[2][2]}
    /\ pairs[3][1] = pairs[2][2] /\ pairs[3][2] = pairs[1][1]
    /\ locked[pairs[3][1]] = {}

\* the remaining candidates no remaining candidate has a locked edge to
UnbeatenRemaining ==
    {i \in final_remaining : \A w \in final_remaining : i \notin locked[w]}

\* the sequence lists every element of S once, labels never descending
LabelSorted(seq, S) ==
    /\ Len(seq) = Cardinality(S)
    /\ Range(seq) = S
    /\ \A k, l \in DOMAIN seq : k < l => movie_titles[seq[k]] <= movie_titles[seq[l]]

C13_LayerStep ==
    [][(pc = "final" /\ UnbeatenRemaining # {}) =>
          /\ Len(ranking') = Len(ranking) + Cardinality(UnbeatenRemaining)
          /\ SubSeq(ranking', 1, Len(ranking)) = ranking
          /\ LabelSorted(SubSeq(ranking', Len(ranking) + 1, Len(ranking')), UnbeatenRemaining)
          /\ final_remaining' = final_remaining \ UnbeatenRemaining]_vars

C13_NoEdgeSortedByLabel ==
    (pc = "done" /\ \A w \in DOMAIN locked : locked[w] = {}) =>
        LabelSorted(ranking, 0..(N - 1))

\* C13: each step of the final sort appends all remaining candidates
\* without a locked edge from a remaining candidate, labels ascending, and
\* removes them together; with no locked edge the ranking is the candidates
\* sorted by label.
C13_LayersByLabel == C13_LayerStep /\ [](C13_NoEdgeSortedByLabel)

\* nothing locked, and the label order put a later candidate first
C13_Witness ==
    /\ pc = "done"
    /\ \A w \in DOMAIN locked : locked[w] = {}
    /\ Len(ranking) = N
    /\ ranking[1] > ranking[N]
    /\ movie_titles[ranking[1]] < movie_titles[ranking[N]]

-----------------------------------------------------------------------------
(* Rank numbers and edges of one voter, checked under SpecVoter.           *)

\* the rank values of a rank map are 1..k for some k >= 0
ContiguousRanks(rm) ==
    LET values == {rm[m] : m \in DOMAIN rm}
    IN  values = 1..Cardinality(values)

\* the remaining candidates no remaining candidate is preferred to
UnbeatenInRemaining == {m \in remaining : \A x \in remaining : m \notin graph[x]}

C14_RanksContiguous ==
    /\ pc \in {"topo", "return"} =>
          /\ ContiguousRanks(rank_map)
          /\ pc = "topo" => {rank_map[m] : m \in DOMAIN rank_map} = 1..(current_rank - 1)
    /\ \A k \in DOMAIN user_rankings : ContiguousRanks(user_rankings[k].rank_map)
    /\ \A k \in DOMAIN vote_rankings : ContiguousRanks(vote_rankings[k])

C14_LayerSharesRank ==
    [][(pc = "topo" /\ UnbeatenInRemaining # {}) =>
          /\ DOMAIN rank_map' = DOMAIN rank_map \cup UnbeatenInRemaining
          /\ \A m \in UnbeatenInRemaining : rank_map'[m] = current_rank
          /\ \A m \in DOMAIN rank_map : rank_map'[m] = rank_map[m]
          /\ remaining' = remaining \ UnbeatenInRemaining
          /\ current_rank' = current_rank + 1]_vars

\* C14: a voter's rank values are exactly 1..k; every candidate without a
\* remaining predecessor at a step gets the rank of that step, and the rank
\* counter grows by one per step, not per candidate.
C14_RankPerLayer == [](C14_RanksContiguous) /\ C14_LayerSharesRank

\* two candidates share rank 1 and a third has rank 2, in both scripts
C14_Witness ==
    /\ pc = "return"
    /\ \E a, b, c \in DOMAIN rank_map :
          a # b /\ rank_map[a] = 1 /\ rank_map[b] = 1 /\ rank_map[c] = 2
    /\ Len(vote_rankings) = Len(user_rankings) + 1
    /\ vote_rankings[Len(vote_rankings)] = rank_map

-----------------------------------------------------------------------------
(* The final ranking against the locked graph, checked under SpecRP.       *)

\* position of a candidate in the returned ranking
PlaceOf(c) == CHOOSE k \in DOMAIN ranking : ranking[k] = c

\* C15: in the returned ranking every locked winner stands strictly before
\* its loser, and the branch of lines 277-281 is never taken: every
\* iteration of the final loop finds a candidate with in-degree zero.
C15_RankingRespectsLocked ==
    /\ pc = "done" =>
          \A w \in DOMAIN locked : \A l \in locked[w] :
              /\ w \in Range(ranking) /\ l \in Range(ranking)
              /\ PlaceOf(w) < PlaceOf(l)
    /\ fallback_taken = FALSE
    /\ (pc = "final" /\ final_remaining # {}) => FinalSources # {}

\* a majority cycle with one pair refused, and a locked loser whose label
\* sorts before its winner's
C15_Witness ==
    /\ pc = "done"
    /\ Len(pairs) = 3
    /\ \E k \in DOMAIN pairs : pairs[k][2] \notin locked[pairs[k][1]]
    /\ \E w \in DOMAIN locked : \E l \in locked[w] :
          movie_titles[l] < movie_titles[w] /\ PlaceOf(w) < PlaceOf(l)

-----------------------------------------------------------------------------
(* A voter's ranking against the voter's own preferences (SpecVoter).      *)

\* the directed preference graph restricted to a component
GraphWithin(main) == [x \in Ids |-> IF x \in main THEN graph[x] \cap main ELSE {}]

\* the candidates of a component on a directed cycle or reachable from one
CycleTainted(main) ==
    {c \in main :
        \E x \in main : OnCycle(x, GraphWithin(main))
                            /\ c \in ReachableFrom({x}, GraphWithin(main))}

\* the rank map orders both ends of every edge of the component it ranks
\* the head of, and ranks exactly the candidates no cycle reaches
AgreesWithPreferences(rm, main) ==
    /\ \A a, b \in main :
          (b \in graph[a] /\ b \in DOMAIN rm) => (a \in DOMAIN rm /\ rm[a] < rm[b])
    /\ \A c \in main : c \in DOMAIN rm <=> c \notin CycleTainted(main)

\* the connected components of maximal size; visualize_vote.py, iterating
\* its sets in its own order, may take another one than main_component
LargestComponents ==
    LET S == Range(movies_to_rank)
    IN  {ComponentOf(c) : c \in {x \in S : \A d \in S :
            Cardinality(ComponentOf(d)) <= Cardinality(ComponentOf(x))}}

\* C16: for every edge a -> b inside the main component, b ranked implies a
\* ranked with a smaller rank; a main-component candidate is ranked exactly
\* when it is neither on a directed cycle nor reachable from one.
C16_RankingAgreesWithEdges ==
    (pc = "return" /\ movies_to_rank # <<>>) =>
        /\ AgreesWithPreferences(rank_map, main_component)
        /\ Len(vote_rankings) = Len(user_rankings) + 1 =>
              \E main \in LargestComponents :
                  /\ DOMAIN vote_rankings[Len(vote_rankings)] \subseteq main
                  /\ AgreesWithPreferences(vote_rankings[Len(vote_rankings)], main)

\* a candidate that is on no cycle but below one stays unranked, in both
\* scripts
C16_Witness ==
    /\ pc = "return"
    /\ Len(vote_rankings) = Len(user_rankings) + 1
    /\ \E c \in main_component :
          /\ ~OnCycle(c, MainGraph)
          /\ c \in CycleTainted(main_component)
          /\ c \notin DOMAIN rank_map
          /\ c \notin DOMAIN vote_rankings[Len(vote_rankings)]

====
